---- MODULE Spec2Model ----
(***************************************************************************)
(* Model of the Go bindings of c-kzg-4844 (bindings/go/main.go): the       *)
(* package-level trusted setup (loaded, settings), the functions that      *)
(* load and free it, the compute/verify wrappers around the C library,     *)
(* and the UnmarshalText conversions.                                      *)
(*                                                                         *)
(* Spec      one caller; every public function is one atomic action.       *)
(* SpecConc  several goroutines; a call is split at the points where the   *)
(*           code reads `loaded`, is inside the C library, and writes      *)
(*           `loaded` (the code takes no lock).                            *)
(***************************************************************************)
EXTENDS Integers, Sequences, FiniteSets, TLC

VARIABLES
    loaded,     \* main.go:41   var loaded = false
    settings,   \* main.go:42   var settings = C.KZGSettings{} (abstract state)
    builds,     \* history: number of successful constructions of settings
    last,       \* history: the last call of Spec (operation, inputs, outcome)
    pc          \* SpecConc: where each goroutine is in its call

vars == <<loaded, settings, builds, last, pc>>

----------------------------------------------------------------------------
(* Bounds of the model *)

\* longest slice handed to the batch operations
MaxLen == 2
\* successful constructions of settings followed in one run
MaxBuilds == 2
\* goroutines of SpecConc
NumGoroutines == 2

----------------------------------------------------------------------------
(* Constants of the program.  main.go takes the C.* ones from the header  *)
(* of the C library (c_kzg_4844.h); their values are the library's.        *)

\* type Bytes32 [32]byte
Bytes32Len == 32
\* type Bytes48 [48]byte
Bytes48Len == 48
\* BytesPerFieldElement = C.BYTES_PER_FIELD_ELEMENT
BytesPerFieldElement == 32
\* FieldElementsPerCell = C.FIELD_ELEMENTS_PER_CELL
FieldElementsPerCell == 64
\* BytesPerCell = C.BYTES_PER_CELL
BytesPerCell == 2048
\* BytesPerBlob = C.BYTES_PER_BLOB
BytesPerBlob == 131072
\* C.BYTES_PER_G1, C.BYTES_PER_G2
BYTES_PER_G1 == 48
BYTES_PER_G2 == 96

\* the C_KZG_RET enumeration of the C library
C_KZG_OK == "C_KZG_OK"
C_KZG_BADARGS == "C_KZG_BADARGS"
C_KZG_ERROR == "C_KZG_ERROR"
C_KZG_MALLOC == "C_KZG_MALLOC"
C_KZG_RET == {C_KZG_OK, C_KZG_BADARGS, C_KZG_ERROR, C_KZG_MALLOC}

\* the error values of the package
ErrBadArgs == "ErrBadArgs"
ErrError == "ErrError"
ErrMalloc == "ErrMalloc"
nil == "nil"
TypedErrors == {ErrBadArgs, ErrError, ErrMalloc}

----------------------------------------------------------------------------
(* Helper functions *)

\* func makeErrorFromRet(ret C.C_KZG_RET) error
makeErrorFromRet(ret) ==
    CASE ret = C_KZG_BADARGS -> ErrBadArgs
      [] ret = C_KZG_ERROR   -> ErrError
      [] ret = C_KZG_MALLOC  -> ErrMalloc
      [] OTHER               -> "unexpected error from c-library"

\* How a call ends.  outcome: "return", "panic" (a Go panic, which unwinds
\* the caller) or "crash" (the C library faulted).  lib: the C library
\* function was invoked.  ld, st: loaded and settings after the call.
Return(res, err, lib, libNil, ld, st) ==
    [outcome |-> "return", msg |-> "", res |-> res, err |-> err,
     lib |-> lib, libNil |-> libNil, ld |-> ld, st |-> st]

Panic(msg, ld, st) ==
    [outcome |-> "panic", msg |-> msg, res |-> <<>>, err |-> "none",
     lib |-> FALSE, libNil |-> FALSE, ld |-> ld, st |-> st]

Crash(ld, st) ==
    [outcome |-> "crash", msg |-> "", res |-> <<>>, err |-> "none",
     lib |-> TRUE, libNil |-> TRUE, ld |-> ld, st |-> st]

----------------------------------------------------------------------------
(* The C library, as the bindings see it: a return code, and what it      *)
(* leaves in the KZGSettings it is handed.                                 *)

\* load_trusted_setup / load_trusted_setup_file write *out
load_trusted_setup(st, ret) == IF ret = C_KZG_OK THEN "built" ELSE "failed"

\* free_trusted_setup releases the tables of *s
free_trusted_setup(st) == "freed"

\* What a library call may answer: a return code and the output buffers,
\* which the library may have written before it fails.  fault: the library
\* dereferences a nil pointer it was handed (undefined behaviour: the
\* process may die, or the call may return anything).
LibAnswers(outs) == [ret : C_KZG_RET, out : outs, fault : BOOLEAN]

\* The answers to draw for a call that ends as r0 whatever the library
\* says: none when the library is not reached, no fault when it is handed
\* no nil pointer.
NoAnswer == [ret |-> "none", out |-> <<>>, fault |-> FALSE]
AnswersFor(r0, outs) ==
    IF ~r0.lib THEN {NoAnswer}
    ELSE {a \in LibAnswers(outs) : a.fault => r0.libNil}

Out1 == {<<"zero">>, <<"nonzero">>}
Out2 == {<<a, b>> : a \in {"zero", "nonzero"}, b \in {"zero", "nonzero"}}
OutBool == {<<"false">>, <<"true">>}

----------------------------------------------------------------------------
(* Interface functions: loading and freeing *)

NotLoaded == "trusted setup isn't loaded"

\* LoadTrustedSetup without its check of `loaded`
LoadTrustedSetupBody_NoLoadedCheck(ld, st, g1Len, g2Len, ret) ==
    IF g1Len % BYTES_PER_G1 # 0
    THEN Panic("len(g1Bytes) is not a multiple of BYTES_PER_G1", ld, st)
    ELSE IF g2Len % BYTES_PER_G2 # 0
    THEN Panic("len(g2Bytes) is not a multiple of BYTES_PER_G2", ld, st)
    ELSE IF ret = C_KZG_OK
    THEN Return(<<>>, nil, TRUE, FALSE, TRUE, load_trusted_setup(st, ret))
    ELSE Return(<<>>, makeErrorFromRet(ret), TRUE, FALSE, ld,
                load_trusted_setup(st, ret))

\* LoadTrustedSetup setting `loaded` whatever the library returned
LoadTrustedSetupBody_LoadedOnFailure(ld, st, g1Len, g2Len, ret) ==
    IF ld THEN Panic("trusted setup is already loaded", ld, st)
    ELSE IF g1Len % BYTES_PER_G1 # 0
    THEN Panic("len(g1Bytes) is not a multiple of BYTES_PER_G1", ld, st)
    ELSE IF g2Len % BYTES_PER_G2 # 0
    THEN Panic("len(g2Bytes) is not a multiple of BYTES_PER_G2", ld, st)
    ELSE IF ret = C_KZG_OK
    THEN Return(<<>>, nil, TRUE, FALSE, TRUE, load_trusted_setup(st, ret))
    ELSE Return(<<>>, makeErrorFromRet(ret), TRUE, FALSE, TRUE,
                load_trusted_setup(st, ret))

\* func LoadTrustedSetup(g1Bytes, g2Bytes []byte) error
LoadTrustedSetupBody(ld, st, g1Len, g2Len, ret) ==
    IF ld THEN Panic("trusted setup is already loaded", ld, st)
    ELSE IF g1Len % BYTES_PER_G1 # 0
    THEN Panic("len(g1Bytes) is not a multiple of BYTES_PER_G1", ld, st)
    ELSE IF g2Len % BYTES_PER_G2 # 0
    THEN Panic("len(g2Bytes) is not a multiple of BYTES_PER_G2", ld, st)
    ELSE IF ret = C_KZG_OK
    THEN Return(<<>>, nil, TRUE, FALSE, TRUE, load_trusted_setup(st, ret))
    ELSE Return(<<>>, makeErrorFromRet(ret), TRUE, FALSE, ld,
                load_trusted_setup(st, ret))

\* LoadTrustedSetupFile without its check of `loaded`
LoadTrustedSetupFileBody_NoLoadedCheck(ld, st, fileOpens, ret) ==
    IF ~fileOpens THEN Panic("error reading trusted setup", ld, st)
    ELSE IF ret = C_KZG_OK
    THEN Return(<<>>, nil, TRUE, FALSE, TRUE, load_trusted_setup(st, ret))
    ELSE Return(<<>>, makeErrorFromRet(ret), TRUE, FALSE, ld,
                load_trusted_setup(st, ret))

\* func LoadTrustedSetupFile(trustedSetupFile string) error
LoadTrustedSetupFileBody(ld, st, fileOpens, ret) ==
    IF ld THEN Panic("trusted setup is already loaded", ld, st)
    ELSE IF ~fileOpens THEN Panic("error reading trusted setup", ld, st)
    ELSE IF ret = C_KZG_OK
    THEN Return(<<>>, nil, TRUE, FALSE, TRUE, load_trusted_setup(st, ret))
    ELSE Return(<<>>, makeErrorFromRet(ret), TRUE, FALSE, ld,
                load_trusted_setup(st, ret))

\* FreeTrustedSetup without its check of `loaded`
FreeTrustedSetupBody_NoLoadedCheck(ld, st) ==
    Return(<<>>, "none", TRUE, FALSE, FALSE, free_trusted_setup(st))

\* func FreeTrustedSetup()
FreeTrustedSetupBody(ld, st) ==
    IF ~ld THEN Panic(NotLoaded, ld, st)
    ELSE Return(<<>>, "none", TRUE, FALSE, FALSE, free_trusted_setup(st))

----------------------------------------------------------------------------
(* Interface functions: commitments and proofs.  blobNil: the blob pointer *)
(* is nil.  ans: what the library answers if it is called.                 *)

\* func BlobToKZGCommitment(blob *Blob) (KZGCommitment, error)
BlobToKZGCommitmentBody(ld, st, blobNil, ans) ==
    IF ~ld THEN Panic(NotLoaded, ld, st)
    ELSE IF blobNil THEN Return(<<"zero">>, ErrBadArgs, FALSE, FALSE, ld, st)
    ELSE IF ans.ret # C_KZG_OK
    THEN Return(<<"zero">>, makeErrorFromRet(ans.ret), TRUE, FALSE, ld, st)
    ELSE Return(ans.out, nil, TRUE, FALSE, ld, st)

\* func ComputeKZGProof(blob *Blob, zBytes Bytes32) (KZGProof, Bytes32, error)
ComputeKZGProofBody(ld, st, blobNil, ans) ==
    IF ~ld THEN Panic(NotLoaded, ld, st)
    ELSE IF blobNil
    THEN Return(<<"zero", "zero">>, ErrBadArgs, FALSE, FALSE, ld, st)
    ELSE IF ans.ret # C_KZG_OK
    THEN Return(<<"zero", "zero">>, makeErrorFromRet(ans.ret), TRUE, FALSE,
                ld, st)
    ELSE Return(ans.out, nil, TRUE, FALSE, ld, st)

\* func ComputeBlobKZGProof(blob *Blob, commitmentBytes Bytes48) (KZGProof, error)
ComputeBlobKZGProofBody(ld, st, blobNil, ans) ==
    IF ~ld THEN Panic(NotLoaded, ld, st)
    ELSE IF blobNil THEN Return(<<"zero">>, ErrBadArgs, FALSE, FALSE, ld, st)
    ELSE IF ans.ret # C_KZG_OK
    THEN Return(<<"zero">>, makeErrorFromRet(ans.ret), TRUE, FALSE, ld, st)
    ELSE Return(ans.out, nil, TRUE, FALSE, ld, st)

\* func VerifyKZGProof(commitmentBytes Bytes48, zBytes, yBytes Bytes32,
\*                     proofBytes Bytes48) (bool, error)
VerifyKZGProofBody(ld, st, ans) ==
    IF ~ld THEN Panic(NotLoaded, ld, st)
    ELSE IF ans.ret # C_KZG_OK
    THEN Return(<<"false">>, makeErrorFromRet(ans.ret), TRUE, FALSE, ld, st)
    ELSE Return(ans.out, nil, TRUE, FALSE, ld, st)

\* func VerifyBlobKZGProof(blob *Blob, commitmentBytes, proofBytes Bytes48)
\*                        (bool, error)
VerifyBlobKZGProofBody(ld, st, blobNil, ans) ==
    IF ~ld THEN Panic(NotLoaded, ld, st)
    ELSE IF blobNil THEN Return(<<"false">>, ErrBadArgs, FALSE, FALSE, ld, st)
    ELSE IF ans.ret # C_KZG_OK
    THEN Return(<<"false">>, makeErrorFromRet(ans.ret), TRUE, FALSE, ld, st)
    ELSE Return(ans.out, nil, TRUE, FALSE, ld, st)

\* func VerifyBlobKZGProofBatch(blobs []Blob, commitmentsBytes,
\*                             proofsBytes []Bytes48) (bool, error)
VerifyBlobKZGProofBatchBody(ld, st, nBlobs, nCommitments, nProofs, ans) ==
    IF ~ld THEN Panic(NotLoaded, ld, st)
    ELSE IF nBlobs # nCommitments \/ nBlobs # nProofs
    THEN Return(<<"false">>, ErrBadArgs, FALSE, FALSE, ld, st)
    ELSE IF ans.ret # C_KZG_OK
    THEN Return(<<"false">>, makeErrorFromRet(ans.ret), TRUE, FALSE, ld, st)
    ELSE Return(ans.out, nil, TRUE, FALSE, ld, st)

----------------------------------------------------------------------------
(* Interface functions: cells *)

\* func ComputeCells(blob *Blob) ([CellsPerExtBlob]Cell, error)
\* The blob pointer goes to the library unchecked.
ComputeCellsBody(ld, st, blobNil, ans) ==
    IF ~ld THEN Panic(NotLoaded, ld, st)
    ELSE IF blobNil /\ ans.fault THEN Crash(ld, st)
    ELSE IF ans.ret # C_KZG_OK
    THEN Return(<<"zero">>, makeErrorFromRet(ans.ret), TRUE, blobNil, ld, st)
    ELSE Return(ans.out, nil, TRUE, blobNil, ld, st)

\* ComputeCellsAndProofs returning its buffers with the error
ComputeCellsAndProofsBody_KeepsBuffers(ld, st, blobNil, ans) ==
    IF ~ld THEN Panic(NotLoaded, ld, st)
    ELSE IF blobNil /\ ans.fault THEN Crash(ld, st)
    ELSE IF ans.ret # C_KZG_OK
    THEN Return(ans.out, makeErrorFromRet(ans.ret), TRUE, blobNil, ld, st)
    ELSE Return(ans.out, nil, TRUE, blobNil, ld, st)

\* func ComputeCellsAndProofs(blob *Blob)
\*     ([CellsPerExtBlob]Cell, [CellsPerExtBlob]KZGProof, error)
\* The blob pointer goes to the library unchecked.
ComputeCellsAndProofsBody(ld, st, blobNil, ans) ==
    IF ~ld THEN Panic(NotLoaded, ld, st)
    ELSE IF blobNil /\ ans.fault THEN Crash(ld, st)
    ELSE IF ans.ret # C_KZG_OK
    THEN Return(<<"zero", "zero">>, makeErrorFromRet(ans.ret), TRUE, blobNil,
                ld, st)
    ELSE Return(ans.out, nil, TRUE, blobNil, ld, st)

\* func CellsToBlob(cells [CellsPerExtBlob]Cell) (Blob, error)
CellsToBlobBody(ld, st, ans) ==
    IF ~ld THEN Panic(NotLoaded, ld, st)
    ELSE IF ans.ret # C_KZG_OK
    THEN Return(<<"zero">>, makeErrorFromRet(ans.ret), TRUE, FALSE, ld, st)
    ELSE Return(ans.out, nil, TRUE, FALSE, ld, st)

\* func RecoverAllCells(cellIds []uint64, cells []Cell)
\*     ([CellsPerExtBlob]Cell, error)
RecoverAllCellsBody(ld, st, nCellIds, nCells, ans) ==
    IF ~ld THEN Panic(NotLoaded, ld, st)
    ELSE IF nCellIds # nCells
    THEN Return(<<"zero">>, ErrBadArgs, FALSE, FALSE, ld, st)
    ELSE IF ans.ret # C_KZG_OK
    THEN Return(<<"zero">>, makeErrorFromRet(ans.ret), TRUE, FALSE, ld, st)
    ELSE Return(ans.out, nil, TRUE, FALSE, ld, st)

\* func VerifyCellProof(commitmentBytes Bytes48, cellId uint64, cell Cell,
\*                      proofBytes Bytes48) (bool, error)
VerifyCellProofBody(ld, st, ans) ==
    IF ~ld THEN Panic(NotLoaded, ld, st)
    ELSE IF ans.ret # C_KZG_OK
    THEN Return(<<"false">>, makeErrorFromRet(ans.ret), TRUE, FALSE, ld, st)
    ELSE Return(ans.out, nil, TRUE, FALSE, ld, st)

\* VerifyCellProofBatch without the comparison of len(proofsBytes)
VerifyCellProofBatchBody_NoProofsCheck(ld, st, nCommitments, nRows, nColumns, nCells, nProofs, ans) ==
    LET cellCount == nCells IN
    IF ~ld THEN Panic(NotLoaded, ld, st)
    ELSE IF nRows # cellCount \/ nColumns # cellCount
    THEN Return(<<"false">>, ErrBadArgs, FALSE, FALSE, ld, st)
    ELSE IF ans.ret # C_KZG_OK
    THEN Return(<<"false">>, makeErrorFromRet(ans.ret), TRUE, FALSE, ld, st)
    ELSE Return(ans.out, nil, TRUE, FALSE, ld, st)

\* func VerifyCellProofBatch(commitmentsBytes []Bytes48, rowIndices,
\*     columnIndices []uint64, cells []Cell, proofsBytes []Bytes48) (bool, error)
VerifyCellProofBatchBody(ld, st, nCommitments, nRows, nColumns, nCells, nProofs, ans) ==
    LET cellCount == nCells IN
    IF ~ld THEN Panic(NotLoaded, ld, st)
    ELSE IF nRows # cellCount \/ nColumns # cellCount \/ nProofs # cellCount
    THEN Return(<<"false">>, ErrBadArgs, FALSE, FALSE, ld, st)
    ELSE IF ans.ret # C_KZG_OK
    THEN Return(<<"false">>, makeErrorFromRet(ans.ret), TRUE, FALSE, ld, st)
    ELSE Return(ans.out, nil, TRUE, FALSE, ld, st)

----------------------------------------------------------------------------
(* Unmarshal functions.  A text input is described by what the code looks  *)
(* at: prefix (it starts with "0x"), len (its length, prefix included) and *)
(* bad (the position, after the prefix is removed, of its first character  *)
(* that is no hex digit; 0 when there is none).                            *)

\* encoding/hex Decode(dst, src): the bytes written and the error, for a
\* source of n characters whose first non-hex character is at `bad`
hexDecode(n, bad) ==
    IF bad > 0 /\ bad <= 2 * (n \div 2)
    THEN [l |-> (bad - 1) \div 2, err |-> "hex.InvalidByteError"]
    ELSE IF n % 2 = 1
    THEN [l |-> n \div 2,
          err |-> IF bad = n THEN "hex.InvalidByteError" ELSE "hex.ErrLength"]
    ELSE [l |-> n \div 2, err |-> nil]

\* bytes.HasPrefix(input, "0x") => input = input[2:]
StripPrefix(in) == IF in.prefix THEN in.len - 2 ELSE in.len

\* The body shared by (*Bytes32), (*Bytes48) and (*Blob) UnmarshalText;
\* size is len(b).
UnmarshalTextFixed(size, in) ==
    LET n == StripPrefix(in)
        d == hexDecode(n, in.bad)
    IN  IF n # 2 * size THEN ErrBadArgs
        ELSE IF d.err # nil THEN d.err
        ELSE IF d.l # size THEN ErrBadArgs
        ELSE nil

\* func (b *Bytes32) UnmarshalText(input []byte) error
Bytes32UnmarshalText(in) == UnmarshalTextFixed(Bytes32Len, in)

\* func (b *Bytes48) UnmarshalText(input []byte) error
Bytes48UnmarshalText(in) == UnmarshalTextFixed(Bytes48Len, in)

\* func (b *Blob) UnmarshalText(input []byte) error
BlobUnmarshalText(in) == UnmarshalTextFixed(BytesPerBlob, in)

\* A cell's text is described by prefix and len as above, and by its first
\* chunk of 2*BytesPerFieldElement characters that is not plain hex:
\* badChunk (0 when there is none) and that chunk as a text input of its own
\* (it may itself start with "0x").
CellChunk(in, i) ==
    IF i = in.badChunk
    THEN [prefix |-> in.chunkPrefix, len |-> 2 * BytesPerFieldElement,
          bad |-> in.chunkBad]
    ELSE [prefix |-> FALSE, len |-> 2 * BytesPerFieldElement, bad |-> 0]

\* the loop of (*Cell) UnmarshalText, from chunk i on
RECURSIVE CellLoop(_, _)
CellLoop(in, i) ==
    IF i > FieldElementsPerCell THEN nil
    ELSE LET err == Bytes32UnmarshalText(CellChunk(in, i))
         IN  IF err # nil THEN err ELSE CellLoop(in, i + 1)

\* func (c *Cell) UnmarshalText(input []byte) error
CellUnmarshalText(in) ==
    LET charsPerCell == 2 * BytesPerCell
    IN  IF StripPrefix(in) # charsPerCell THEN ErrBadArgs
        ELSE CellLoop(in, 1)

----------------------------------------------------------------------------
(* Inputs *)

G1Lens == {0, BYTES_PER_G1, BYTES_PER_G1 + 1, 2 * BYTES_PER_G1}
G2Lens == {0, BYTES_PER_G2, BYTES_PER_G2 + 1}
Lens == 0..MaxLen
CommitmentLens == {0, MaxLen}

TextInputs(size) ==
    {[prefix |-> p, len |-> l + (IF p THEN 2 ELSE 0), bad |-> b] :
        p \in BOOLEAN,
        l \in {0, 2 * size - 1, 2 * size, 2 * size + 2},
        b \in {0, 1, 2 * size}} \cap
    {in \in [prefix : BOOLEAN, len : Nat, bad : Nat] :
        in.bad <= StripPrefix(in)}

CellInputs ==
    {[prefix |-> p, len |-> l + (IF p THEN 2 ELSE 0), badChunk |-> c,
      chunkPrefix |-> cp, chunkBad |-> cb] :
        p \in BOOLEAN,
        l \in {0, 2 * BytesPerCell - 2, 2 * BytesPerCell},
        c \in {0, 1, FieldElementsPerCell},
        cp \in BOOLEAN,
        cb \in {1, 2 * BytesPerFieldElement}}

LoadOps == {"LoadTrustedSetup", "LoadTrustedSetupFile"}
BlobOps == {"BlobToKZGCommitment", "ComputeKZGProof", "ComputeBlobKZGProof",
            "VerifyBlobKZGProof", "ComputeCells", "ComputeCellsAndProofs"}
BatchOps == {"VerifyBlobKZGProofBatch", "RecoverAllCells",
             "VerifyCellProofBatch"}
ReadOps == BlobOps \cup BatchOps \cup
           {"VerifyKZGProof", "CellsToBlob", "VerifyCellProof"}
UnmarshalOps == {"Bytes32.UnmarshalText", "Bytes48.UnmarshalText",
                 "Blob.UnmarshalText", "Cell.UnmarshalText"}

----------------------------------------------------------------------------
(* Spec: one caller, one action per public function *)

Idle == [at |-> "idle", op |-> "none", ret |-> "none"]

Init ==
    /\ loaded = FALSE
    /\ settings = "zero"
    /\ builds = 0
    /\ last = [op |-> "none", wasLoaded |-> FALSE, wasSettings |-> "zero",
               blobNil |-> FALSE, lens |-> <<>>, outcome |-> "none",
               msg |-> "", res |-> <<>>, err |-> "none", lib |-> FALSE,
               libNil |-> FALSE, ret |-> "none", out |-> <<>>]
    /\ pc = [g \in 1..NumGoroutines |-> Idle]

\* A call of op that ends as r: the globals take the values the call leaves,
\* and the call is recorded.  ans is what the library answered, if called.
Call(op, blobNil, lens, r, ans) ==
    /\ last.outcome # "crash"
    /\ loaded' = r.ld
    /\ settings' = r.st
    /\ builds' = IF op \in LoadOps /\ r.lib /\ ans.ret = C_KZG_OK
                 THEN builds + 1 ELSE builds
    /\ builds' <= MaxBuilds
    /\ last' = [op |-> op, wasLoaded |-> loaded, wasSettings |-> settings,
                blobNil |-> blobNil, lens |-> lens, outcome |-> r.outcome,
                msg |-> r.msg, res |-> r.res, err |-> r.err, lib |-> r.lib,
                libNil |-> r.libNil,
                ret |-> IF r.lib /\ r.outcome = "return" THEN ans.ret
                        ELSE "none",
                out |-> IF r.lib /\ r.outcome = "return" THEN ans.out
                        ELSE <<>>]
    /\ UNCHANGED pc

LoadTrustedSetup ==
    \E g1Len \in G1Lens, g2Len \in G2Lens, ret \in C_KZG_RET :
        Call("LoadTrustedSetup", FALSE, <<g1Len, g2Len>>,
             LoadTrustedSetupBody(loaded, settings, g1Len, g2Len, ret),
             [NoAnswer EXCEPT !.ret = ret])

LoadTrustedSetupFile ==
    \E fileOpens \in BOOLEAN, ret \in C_KZG_RET :
        Call("LoadTrustedSetupFile", FALSE, <<IF fileOpens THEN 1 ELSE 0>>,
             LoadTrustedSetupFileBody(loaded, settings, fileOpens, ret),
             [NoAnswer EXCEPT !.ret = ret])

FreeTrustedSetup ==
    Call("FreeTrustedSetup", FALSE, <<>>,
         FreeTrustedSetupBody(loaded, settings), NoAnswer)

BlobToKZGCommitment ==
    \E blobNil \in BOOLEAN :
        \E ans \in AnswersFor(BlobToKZGCommitmentBody(loaded, settings, blobNil, NoAnswer),
                              Out1) :
            Call("BlobToKZGCommitment", blobNil, <<>>,
                 BlobToKZGCommitmentBody(loaded, settings, blobNil, ans), ans)

ComputeKZGProof ==
    \E blobNil \in BOOLEAN :
        \E ans \in AnswersFor(ComputeKZGProofBody(loaded, settings, blobNil, NoAnswer),
                              Out2) :
            Call("ComputeKZGProof", blobNil, <<>>,
                 ComputeKZGProofBody(loaded, settings, blobNil, ans), ans)

ComputeBlobKZGProof ==
    \E blobNil \in BOOLEAN :
        \E ans \in AnswersFor(ComputeBlobKZGProofBody(loaded, settings, blobNil, NoAnswer),
                              Out1) :
            Call("ComputeBlobKZGProof", blobNil, <<>>,
                 ComputeBlobKZGProofBody(loaded, settings, blobNil, ans), ans)

VerifyKZGProof ==
    \E ans \in AnswersFor(VerifyKZGProofBody(loaded, settings, NoAnswer), OutBool) :
        Call("VerifyKZGProof", FALSE, <<>>,
             VerifyKZGProofBody(loaded, settings, ans), ans)

VerifyBlobKZGProof ==
    \E blobNil \in BOOLEAN :
        \E ans \in AnswersFor(VerifyBlobKZGProofBody(loaded, settings, blobNil, NoAnswer),
                              OutBool) :
            Call("VerifyBlobKZGProof", blobNil, <<>>,
                 VerifyBlobKZGProofBody(loaded, settings, blobNil, ans), ans)

VerifyBlobKZGProofBatch ==
    \E nBlobs \in Lens, nCommitments \in Lens, nProofs \in Lens :
        \E ans \in AnswersFor(
                VerifyBlobKZGProofBatchBody(loaded, settings, nBlobs,
                                            nCommitments, nProofs, NoAnswer),
                OutBool) :
            Call("VerifyBlobKZGProofBatch", FALSE,
                 <<nBlobs, nCommitments, nProofs>>,
                 VerifyBlobKZGProofBatchBody(loaded, settings, nBlobs,
                                             nCommitments, nProofs, ans),
                 ans)

ComputeCells ==
    \E blobNil \in BOOLEAN :
        \E ans \in AnswersFor(ComputeCellsBody(loaded, settings, blobNil, NoAnswer),
                              Out1) :
            Call("ComputeCells", blobNil, <<>>,
                 ComputeCellsBody(loaded, settings, blobNil, ans), ans)

ComputeCellsAndProofs ==
    \E blobNil \in BOOLEAN :
        \E ans \in AnswersFor(ComputeCellsAndProofsBody(loaded, settings, blobNil, NoAnswer),
                              Out2) :
            Call("ComputeCellsAndProofs", blobNil, <<>>,
                 ComputeCellsAndProofsBody(loaded, settings, blobNil, ans), ans)

CellsToBlob ==
    \E ans \in AnswersFor(CellsToBlobBody(loaded, settings, NoAnswer), Out1) :
        Call("CellsToBlob", FALSE, <<>>,
             CellsToBlobBody(loaded, settings, ans), ans)

RecoverAllCells ==
    \E nCellIds \in Lens, nCells \in Lens :
        \E ans \in AnswersFor(
                RecoverAllCellsBody(loaded, settings, nCellIds, nCells,
                                    NoAnswer),
                Out1) :
            Call("RecoverAllCells", FALSE, <<nCellIds, nCells>>,
                 RecoverAllCellsBody(loaded, settings, nCellIds, nCells, ans),
                 ans)

VerifyCellProof ==
    \E ans \in AnswersFor(VerifyCellProofBody(loaded, settings, NoAnswer), OutBool) :
        Call("VerifyCellProof", FALSE, <<>>,
             VerifyCellProofBody(loaded, settings, ans), ans)

VerifyCellProofBatch ==
    \E nCommitments \in CommitmentLens, nRows \in Lens, nColumns \in Lens,
       nCells \in Lens, nProofs \in Lens :
        \E ans \in AnswersFor(
                VerifyCellProofBatchBody(loaded, settings, nCommitments, nRows,
                                         nColumns, nCells, nProofs, NoAnswer),
                OutBool) :
            Call("VerifyCellProofBatch", FALSE,
                 <<nCommitments, nRows, nColumns, nCells, nProofs>>,
                 VerifyCellProofBatchBody(loaded, settings, nCommitments, nRows,
                                          nColumns, nCells, nProofs, ans),
                 ans)

\* An UnmarshalText call returns err; it touches neither loaded nor settings.
Unmarshal(op, in, err) ==
    Call(op, FALSE, <<in.len, in.bad>>,
         Return(<<>>, err, FALSE, FALSE, loaded, settings), NoAnswer)

Bytes32Unmarshal ==
    \E in \in TextInputs(Bytes32Len) :
        Unmarshal("Bytes32.UnmarshalText", in, Bytes32UnmarshalText(in))

Bytes48Unmarshal ==
    \E in \in TextInputs(Bytes48Len) :
        Unmarshal("Bytes48.UnmarshalText", in, Bytes48UnmarshalText(in))

BlobUnmarshal ==
    \E in \in TextInputs(BytesPerBlob) :
        Unmarshal("Blob.UnmarshalText", in, BlobUnmarshalText(in))

CellUnmarshal ==
    \E in \in CellInputs :
        Unmarshal("Cell.UnmarshalText", [len |-> in.len, bad |-> in.badChunk],
                  CellUnmarshalText(in))

Next ==
    \/ LoadTrustedSetup
    \/ LoadTrustedSetupFile
    \/ FreeTrustedSetup
    \/ BlobToKZGCommitment
    \/ ComputeKZGProof
    \/ ComputeBlobKZGProof
    \/ VerifyKZGProof
    \/ VerifyBlobKZGProof
    \/ VerifyBlobKZGProofBatch
    \/ ComputeCells
    \/ ComputeCellsAndProofs
    \/ CellsToBlob
    \/ RecoverAllCells
    \/ VerifyCellProof
    \/ VerifyCellProofBatch
    \/ Bytes32Unmarshal
    \/ Bytes48Unmarshal
    \/ BlobUnmarshal
    \/ CellUnmarshal

Spec == Init /\ [][Next]_vars

----------------------------------------------------------------------------
(* SpecConc: goroutines calling into the package at the same time.  The    *)
(* code takes no lock, so a call is three steps: it reads `loaded`, it is  *)
(* inside the C library with &settings, and it writes `loaded`.            *)

Goroutines == 1..NumGoroutines

At(g, at) == pc[g].at = at
Goto(g, at, op, ret) == pc' = [pc EXCEPT ![g] = [at |-> at, op |-> op, ret |-> ret]]

\* LoadTrustedSetup / LoadTrustedSetupFile up to the library call: the
\* checks of `loaded` and of the arguments
GoLoadCheck(g) ==
    /\ At(g, "idle")
    /\ \E op \in LoadOps, argsOk \in BOOLEAN :
          IF loaded \/ ~argsOk
          THEN Goto(g, "idle", op, "panic")
          ELSE Goto(g, "load_call", op, "none")
    /\ UNCHANGED <<loaded, settings, builds, last>>

\* C.load_trusted_setup(&settings, ...) starts writing settings
GoLoadLibEnter(g) ==
    /\ At(g, "load_call")
    /\ settings' = "loading"
    /\ Goto(g, "load_lib", pc[g].op, "none")
    /\ UNCHANGED <<loaded, builds, last>>

\* ... and returns
GoLoadLibExit(g) ==
    /\ At(g, "load_lib")
    /\ \E ret \in C_KZG_RET :
          /\ settings' = load_trusted_setup(settings, ret)
          /\ Goto(g, "load_ret", pc[g].op, ret)
    /\ UNCHANGED <<loaded, builds, last>>

\* if ret == C.C_KZG_OK { loaded = true; return nil }
\* return makeErrorFromRet(ret)
GoLoadFinish(g) ==
    /\ At(g, "load_ret")
    /\ loaded' = IF pc[g].ret = C_KZG_OK THEN TRUE ELSE loaded
    /\ Goto(g, "idle", pc[g].op,
            IF pc[g].ret = C_KZG_OK THEN nil ELSE makeErrorFromRet(pc[g].ret))
    /\ UNCHANGED <<settings, builds, last>>

\* FreeTrustedSetup: if !loaded { panic }
GoFreeCheck(g) ==
    /\ At(g, "idle")
    /\ IF ~loaded
       THEN Goto(g, "idle", "FreeTrustedSetup", "panic")
       ELSE Goto(g, "free_call", "FreeTrustedSetup", "none")
    /\ UNCHANGED <<loaded, settings, builds, last>>

\* C.free_trusted_setup(&settings) starts releasing settings
GoFreeLibEnter(g) ==
    /\ At(g, "free_call")
    /\ settings' = "freeing"
    /\ Goto(g, "free_lib", pc[g].op, "none")
    /\ UNCHANGED <<loaded, builds, last>>

\* ... and returns
GoFreeLibExit(g) ==
    /\ At(g, "free_lib")
    /\ settings' = free_trusted_setup(settings)
    /\ Goto(g, "free_ret", pc[g].op, "none")
    /\ UNCHANGED <<loaded, builds, last>>

\* loaded = false
GoFreeFinish(g) ==
    /\ At(g, "free_ret")
    /\ loaded' = FALSE
    /\ Goto(g, "idle", pc[g].op, "none")
    /\ UNCHANGED <<settings, builds, last>>

\* VerifyKZGProof (every compute/verify function has this shape):
\* if !loaded { panic }
GoReadCheck(g) ==
    /\ At(g, "idle")
    /\ IF ~loaded
       THEN Goto(g, "idle", "VerifyKZGProof", "panic")
       ELSE Goto(g, "read_call", "VerifyKZGProof", "none")
    /\ UNCHANGED <<loaded, settings, builds, last>>

\* C.verify_kzg_proof(..., &settings) starts reading settings
GoReadLibEnter(g) ==
    /\ At(g, "read_call")
    /\ Goto(g, "read_lib", pc[g].op, "none")
    /\ UNCHANGED <<loaded, settings, builds, last>>

\* ... and returns
GoReadLibExit(g) ==
    /\ At(g, "read_lib")
    /\ \E ret \in C_KZG_RET :
          Goto(g, "idle", pc[g].op,
               IF ret = C_KZG_OK THEN nil ELSE makeErrorFromRet(ret))
    /\ UNCHANGED <<loaded, settings, builds, last>>

NextConc ==
    \E g \in Goroutines :
        \/ GoLoadCheck(g)
        \/ GoLoadLibEnter(g)
        \/ GoLoadLibExit(g)
        \/ GoLoadFinish(g)
        \/ GoFreeCheck(g)
        \/ GoFreeLibEnter(g)
        \/ GoFreeLibExit(g)
        \/ GoFreeFinish(g)
        \/ GoReadCheck(g)
        \/ GoReadLibEnter(g)
        \/ GoReadLibExit(g)

SpecConc == Init /\ [][NextConc]_vars

----------------------------------------------------------------------------
(* Properties.  Under Spec, `last` is the call just made: its inputs, the  *)
(* globals before it (wasLoaded, wasSettings) and how it ended.            *)

ZeroResult(res) ==
    /\ Len(res) > 0
    /\ \A i \in 1..Len(res) : res[i] \in {"zero", "false"}

SecondLoad == last.op \in LoadOps /\ last.wasLoaded
GlobalsUntouched == loaded = last.wasLoaded /\ settings = last.wasSettings

UseBeforeLoad ==
    last.op \in ReadOps \cup {"FreeTrustedSetup"} /\ ~last.wasLoaded

AllEqual(lens) == \A i, j \in 1..Len(lens) : lens[i] = lens[j]

LengthsMatch ==
    CASE last.op = "VerifyBlobKZGProofBatch" -> AllEqual(last.lens)
      [] last.op = "RecoverAllCells" -> AllEqual(last.lens)
      [] last.op = "VerifyCellProofBatch" -> AllEqual(Tail(last.lens))

\* C6: with a setup loaded, VerifyBlobKZGProofBatch, VerifyCellProofBatch
\* and RecoverAllCells called with parallel slices of different lengths
\* return ErrBadArgs (and false / the zero cells) without invoking the
\* library; called with slices of equal lengths, the empty ones included,
\* they are not rejected by the check and the library is invoked.
C6_MismatchedLengthsRejected ==
    (last.op \in BatchOps /\ last.wasLoaded) =>
        IF LengthsMatch
        THEN last.lib /\ last.ret \in C_KZG_RET
        ELSE /\ last.outcome = "return"
             /\ last.err = ErrBadArgs
             /\ ZeroResult(last.res)
             /\ ~last.lib

C6_Witness ==
    /\ last.op = "VerifyCellProofBatch"
    /\ last.wasLoaded
    /\ last.lens[2] = last.lens[4] /\ last.lens[3] = last.lens[4]
    /\ last.lens[5] # last.lens[4]
    /\ last.err = ErrBadArgs

\* C7, as claimed: a non-nil error returned by a public function, the
\* UnmarshalText conversions included, is ErrBadArgs, ErrError or ErrMalloc;
\* C_KZG_BADARGS maps to ErrBadArgs, C_KZG_ERROR to ErrError, C_KZG_MALLOC
\* to ErrMalloc, and the error is nil iff the library returned C_KZG_OK.
C7_OnlyTypedErrors ==
    (last.outcome = "return" /\ last.op # "FreeTrustedSetup") =>
        /\ last.err \in TypedErrors \cup {nil}
        /\ last.lib =>
              /\ last.err = nil <=> last.ret = C_KZG_OK
              /\ last.ret = C_KZG_BADARGS => last.err = ErrBadArgs
              /\ last.ret = C_KZG_ERROR => last.err = ErrError
              /\ last.ret = C_KZG_MALLOC => last.err = ErrMalloc

\* C8: a compute/verify operation that returns a non-nil error returns the
\* zero value with it (zero arrays, false), whatever the library left in
\* the output buffers; so a non-zero result or true comes only with nil.
C8_ErrorMeansZeroResult ==
    (last.op \in ReadOps /\ last.outcome = "return") =>
        /\ last.err # nil => ZeroResult(last.res)
        /\ ~ZeroResult(last.res) => last.err = nil /\ last.res = last.out

C8_Witness ==
    /\ last.op = "ComputeCellsAndProofs"
    /\ last.err = ErrMalloc
    /\ last.out = <<"nonzero", "nonzero">>
    /\ last.res = <<"zero", "zero">>

LoadArgsOk ==
    CASE last.op = "LoadTrustedSetup" ->
              last.lens[1] % BYTES_PER_G1 = 0 /\ last.lens[2] % BYTES_PER_G2 = 0
      [] last.op = "LoadTrustedSetupFile" -> last.lens[1] = 1

\* C9: loaded becomes true only in a load whose library call returned
\* C_KZG_OK, and false only in FreeTrustedSetup; a load whose library call
\* returns another code returns the mapped error and leaves loaded false; a
\* load called while loaded is false (after a failed load too) reaches the
\* library; no compute/verify operation changes loaded.
C9_LoadedTracksConstruction ==
    /\ (loaded /\ ~last.wasLoaded) =>
          last.op \in LoadOps /\ last.ret = C_KZG_OK /\ last.err = nil
    /\ (~loaded /\ last.wasLoaded) =>
          last.op = "FreeTrustedSetup" /\ last.outcome = "return"
    /\ (last.op \in LoadOps /\ last.lib) =>
          /\ last.ret = C_KZG_OK => loaded /\ last.err = nil
          /\ last.ret = C_KZG_BADARGS => ~loaded /\ last.err = ErrBadArgs
          /\ last.ret = C_KZG_ERROR => ~loaded /\ last.err = ErrError
          /\ last.ret = C_KZG_MALLOC => ~loaded /\ last.err = ErrMalloc
    /\ (last.op \in LoadOps /\ ~last.wasLoaded /\ LoadArgsOk) => last.lib
    /\ last.op \in ReadOps => loaded = last.wasLoaded

C9_Witness ==
    /\ last.op \in LoadOps
    /\ last.wasSettings = "failed"
    /\ last.ret = C_KZG_OK
    /\ loaded

\* C10, as claimed: with a setup loaded, every operation that takes a blob
\* pointer answers a nil blob with ErrBadArgs and a zero result, and does
\* not invoke the library, so the library is never handed a nil blob.
C10_NilBlobRejected ==
    (last.op \in BlobOps /\ last.wasLoaded /\ last.blobNil) =>
        /\ last.outcome = "return"
        /\ last.err = ErrBadArgs
        /\ ZeroResult(last.res)
        /\ ~last.lib

----------------------------------------------------------------------------
(* Properties of SpecConc *)

InLoadLib == {g \in Goroutines : At(g, "load_lib")}
InReadLib == {g \in Goroutines : At(g, "read_lib")}

\* C4, as claimed: of the goroutines that call a load at the same time, at
\* most one constructs settings: no two are inside load_trusted_setup on
\* the shared settings together, and none is inside it once loaded is true.
C4_SingleWriter ==
    /\ Cardinality(InLoadLib) <= 1
    /\ InLoadLib # {} => ~loaded

\* C5, as claimed: an operation that passed its check of loaded is never
\* inside the library with settings freed or being freed.
C5_ReadersSeeConstructedSetup ==
    InReadLib # {} => settings \notin {"freeing", "freed"}

====
